---- MODULE Spec2Model ----
(***************************************************************************)
(* The cache subsystem of app.py: cache-key derivation, download_audio and *)
(* download_video (lookup, extractor call, publish into the cache          *)
(* directories), check_cache_size_and_cleanup and the background loop      *)
(* periodic_cache_cleanup.  Request threads and the background thread      *)
(* share the three directories under /tmp and nothing else: app.py holds   *)
(* no lock and no in-memory table of running downloads.                    *)
(*                                                                         *)
(* Granularity.  One action is one system call on a shared directory (or   *)
(* a run of calls on files only the calling thread can name, the staging   *)
(* files of its unique_id).  os.rename inside shutil.move is atomic;       *)
(* shutil.copy2 opens the destination (truncating it) and writes it later. *)
(*                                                                         *)
(* Specifications.  Spec: NumThreads request threads and the background    *)
(* loop on one locator.  StoreSpec: one request thread and the background  *)
(* loop on the locators u and u + "_video".  DownSpec: the threads serve   *)
(* GET /down (get_cdn_link) while time passes.                             *)
(***************************************************************************)
EXTENDS Integers, Sequences, FiniteSets, TLC

\* ------------------------------------------------------------------ bounds
NumThreads == 2          \* request threads of the Flask server
MaxStale == 2            \* staging files of finished requests that are counted
MaxTime == 7202          \* seconds the clock runs

\* --------------------------------------------------------------- constants
MB == 1024 * 1024
MAX_CACHE_SIZE == 500 * MB

Threads == 1 .. NumThreads
BG == 0                  \* the thread started at line 200
Executors == Threads \cup {BG}

\* Locators are strings of letters; "_video" is the suffix download_video
\* appends before hashing, "k" stands for "kick.com/".
Locators == { <<"u">> }

\* The locators get_cdn_link is called with: a YouTube one and a Kick one.
DownLocators == { <<"u">>, <<"k">> }

\* resolved[url] before get_cdn_link has answered for url.
Never == 0 - 1
Variants == {"audio", "video"}

\* Size in bytes of the file the extractor produces: format 249 (line 215)
\* is the small audio stream, the mp4 of line 229 is larger.  Two audio
\* files fill the cache exactly, any two files with a video exceed it.
FileSize(variant) == IF variant = "audio" THEN 250 * MB ELSE 300 * MB

\* ------------------------------------------------------------ key derivation
\* str.encode: one code per letter.
encode(s) ==
    [i \in 1 .. Len(s) |-> IF s[i] = "u" THEN 1 ELSE IF s[i] = "_video" THEN 2 ELSE 3]

\* hashlib.md5(...).hexdigest(): a digest taken as collision-free on the
\* strings of the model (bijective base-3 numeration of the codes).
RECURSIVE md5(_)
md5(b) == IF b = <<>> THEN 0 ELSE b[1] + 3 * md5(Tail(b))

get_cache_key(video_url) == md5(encode(video_url))

\* The video key taken without the suffix.
video_cache_key_nosuffix(video_url) == md5(encode(video_url))

\* Line 274: hashlib.md5((video_url + "_video").encode()).hexdigest()
video_cache_key(video_url) == md5(encode(video_url \o <<"_video">>))

cache_key(video_url, variant) ==
    IF variant = "audio" THEN get_cache_key(video_url) ELSE video_cache_key(video_url)

\* Both artifacts kept in CACHE_DIR.
CacheDirOf_shared(variant) == "CACHE_DIR"

\* Lines 243/255 and 275/303: the directory an artifact goes to.
CacheDirOf(variant) == IF variant = "audio" THEN "CACHE_DIR" ELSE "CACHE_VIDEO_DIR"

CacheDirs == { "CACHE_DIR", "CACHE_VIDEO_DIR" }

\* os.path.join(CACHE_DIR, f"{cache_key}.webm") / (CACHE_VIDEO_DIR, ....mp4)
cached_file_path(video_url, variant) ==
    << CacheDirOf(variant), cache_key(video_url, variant) >>

\* The file names the program can create in a cache directory.
NamesOf(dir) ==
    { cache_key(l, v) : l \in Locators, v \in { w \in Variants : CacheDirOf(w) = dir } }

\* -------------------------------------------------------------------- files
\* A file at a canonical path: len is the length of the content being
\* published, bytes what os.path.getsize returns now (bytes < len while a
\* copy2 is writing it, or after one failed).
Absent == [exists |-> FALSE, len |-> 0, bytes |-> 0]
Whole(n) == [exists |-> TRUE, len |-> n, bytes |-> n]
Opened(n) == [exists |-> TRUE, len |-> n, bytes |-> 0]

\* What a request got: a canonical path, or the exception that left
\* download_audio / download_video.
NoPath == << "none", 0 >>
Failure(exc) == << exc, 0 >>
Exceptions == { "DownloadError", "no file produced", "OSError", "FileNotFoundError" }

\* Extensions of staging files: the one prepare_filename / the mp4
\* preference names, and any other file of the unique_id the extractor leaves.
MainExt(variant) == IF variant = "audio" THEN "webm" ELSE "mp4"
OtherExt == "other"
NoFile == "none"

VARIABLES
    cache,      \* cache[dir][name]: the file at a canonical path
    staging,    \* TEMP_DOWNLOAD_DIR: [id, ext], the files of running requests
    stale,      \* TEMP_DOWNLOAD_DIR: how many files finished requests left
    req,        \* req[t]: the locals of request thread t
    ev,         \* ev[e]: the locals of check_cache_size_and_cleanup run by e
    bg,         \* where periodic_cache_cleanup is: "sleep", "pass", "dead"
    overlap,    \* history: << t, u >> when, during the last call of t, a call
                \* of u for the same (locator, variant) was in flight
    now,        \* the time in seconds
    down,       \* down[t]: the locals of get_cdn_link run by thread t
    resolved    \* history: resolved[url], when get_cdn_link last answered
                \* with a stream link for url (Never: not yet)

vars == << cache, staging, stale, req, ev, bg, overlap, now, down, resolved >>

\* What get_cdn_link reads and writes besides the audio cache directory.
downvars == << now, down, resolved >>

IdleReq ==
    [pc |-> "idle", url |-> <<"u">>, variant |-> "audio",
     downloaded_file |-> NoFile, result |-> NoPath]

IdleEv == [pc |-> "none", dir |-> "CACHE_DIR", total |-> 0, names |-> {}]

IdleDown == [pc |-> "idle", url |-> <<"u">>, cached |-> FALSE, response |-> "none"]

Init ==
    /\ cache = [d \in CacheDirs |-> [n \in NamesOf(d) |-> Absent]]
    /\ staging = {}
    /\ stale = 0
    /\ req = [t \in Threads |-> IdleReq]
    /\ ev = [e \in Executors |-> IdleEv]
    /\ bg = "sleep"
    /\ overlap = {}
    /\ now = 0
    /\ down = [t \in Threads |-> IdleDown]
    /\ resolved = [l \in DownLocators |-> Never]

\* ------------------------------------------------------------------ helpers
RECURSIVE SumBytes(_, _)
SumBytes(dirFiles, names) ==
    IF names = {} THEN 0
    ELSE LET n == CHOOSE x \in names : TRUE
         IN  dirFiles[n].bytes + SumBytes(dirFiles, names \ {n})

\* glob.glob / os.walk / os.listdir of a cache directory: the names present.
Listing(dir) == { n \in DOMAIN cache[dir] : cache[dir][n].exists }

\* glob.glob(os.path.join(TEMP_DOWNLOAD_DIR, f"{unique_id}.*"))
Candidates(uid) == { f \in staging : f.id = uid }

FileAt(path) == cache[path[1]][path[2]]

InFlight(t) == req[t].pc \notin {"idle", "hit", "returned", "failed"}

\* Thread t is in no handler: it can take the next request.
Free(t) == req[t].pc \in {"idle", "failed"} /\ down[t].pc \in {"idle", "answered"}

\* The requests in flight for the same (locator, variant) as a new request
\* of thread t: each overlaps it, and it overlaps each.
Overlapping(t, url, variant) ==
    LET others == { w \in Threads \ {t} :
                      /\ InFlight(w)
                      /\ req[w].url = url
                      /\ req[w].variant = variant }
    IN  { << t, u >> : u \in others } \cup { << u, t >> : u \in others }

Put(path, file) == cache' = [cache EXCEPT ![path[1]][path[2]] = file]

\* str(uuid.uuid4()), lines 247 and 279: a name no other request bears.
\* The running request of thread t is the only one that can name its
\* files, so they are filed under t; what it leaves behind is counted in
\* stale (up to MaxStale) once it has made its last call on them.
unique_id(t) == t

\* The files requests can have in TEMP_DOWNLOAD_DIR.
StagingFiles ==
    { [id |-> unique_id(t), ext |-> x] : t \in Threads, x \in {"webm", "mp4", OtherExt} }

Min(a, b) == IF a <= b THEN a ELSE b

\* The request of thread t will not name its staging files again: all of
\* them but the set gone are left behind.
LeaveBut(t, gone) ==
    /\ staging' = staging \ Candidates(unique_id(t))
    /\ stale' = Min(stale + Cardinality(Candidates(unique_id(t)) \ gone), MaxStale)

Leave(t) == LeaveBut(t, {})

\* The caller of download_audio / download_video gets the exception exc.
Raise(t, exc) ==
    /\ req' = [req EXCEPT ![t].pc = "failed", ![t].result = Failure(exc),
                          ![t].downloaded_file = NoFile]
    /\ Leave(t)

\* download_audio / download_video returns cached_file_path (lines 267, 322).
Return(t) ==
    /\ req' = [req EXCEPT ![t].pc = "returned",
                          ![t].result = cached_file_path(req[t].url, req[t].variant)]
    /\ UNCHANGED << staging, stale >>

\* A lookup whose glob pattern matches no file.
LookupHit_never(path) == FALSE

\* Lines 242-245 and 274-277: the lookup.  A hit is any directory entry at
\* the canonical path (glob does not look at the size).
LookupHit(path) == FileAt(path).exists

\* A request enters download_audio(url) or download_video(url) and globs
\* the canonical path; a hit returns cached_files[0] (lines 245, 277), a
\* miss draws a uuid4 and calls the extractor.
Lookup(t, url, variant) ==
    LET path == cached_file_path(url, variant) IN
    /\ Free(t)
    /\ IF LookupHit(path)
       THEN /\ req' = [req EXCEPT ![t] = [pc |-> "hit", url |-> url,
                          variant |-> variant,
                          downloaded_file |-> NoFile, result |-> path]]
            /\ overlap' = { p \in overlap : p[1] # t }
       ELSE /\ req' = [req EXCEPT ![t] = [pc |-> "extract", url |-> url,
                          variant |-> variant,
                          downloaded_file |-> NoFile, result |-> NoPath]]
            /\ overlap' = { p \in overlap : p[1] # t }
                              \cup Overlapping(t, url, variant)
    /\ UNCHANGED << cache, staging, stale, ev, bg >>
    /\ UNCHANGED downvars

\* An extractor that writes under the canonical path and raises midway.
ExtractFails_publishes(t) ==
    /\ req[t].pc = "extract"
    /\ Raise(t, "DownloadError")
    /\ Put(cached_file_path(req[t].url, req[t].variant), Opened(FileSize(req[t].variant)))
    /\ UNCHANGED << ev, bg, overlap >>
    /\ UNCHANGED downvars

\* Lines 251 and 287: ydl.extract_info(video_url, download=True) raises.
ExtractFails(t) ==
    /\ req[t].pc = "extract"
    /\ Raise(t, "DownloadError")
    /\ UNCHANGED << cache, ev, bg, overlap >>
    /\ UNCHANGED downvars

\* Lines 290-300: which staging file download_video takes.
PickVideoFile(exts) ==
    IF exts = {} THEN "mp4"
    ELSE IF "mp4" \in exts THEN "mp4" ELSE CHOOSE x \in exts : TRUE

\* Lines 251-252 and 287-300: the extractor returns, having written the
\* files exts under the output template {unique_id}.%(ext)s.
\* download_audio takes prepare_filename(info), download_video the glob.
ExtractReturns(t, exts) ==
    /\ req[t].pc = "extract"
    /\ exts \subseteq {MainExt(req[t].variant), OtherExt}
    /\ staging' = staging \cup { [id |-> unique_id(t), ext |-> x] : x \in exts }
    /\ req' = [req EXCEPT ![t].pc = "move",
                          ![t].downloaded_file =
                              IF req[t].variant = "audio" THEN "webm"
                              ELSE PickVideoFile(exts)]
    /\ UNCHANGED << cache, stale, ev, bg, overlap >>
    /\ UNCHANGED downvars

\* The first state of check_cache_size_and_cleanup (line 185).
EnterCleanup == [pc |-> "walk", dir |-> "CACHE_DIR", total |-> 0, names |-> {}]

Source(t) == { f \in staging : f.id = unique_id(t) /\ f.ext = req[t].downloaded_file }

\* Lines 257 and 305: shutil.move renames the staging file onto the
\* canonical path.
MoveSucceeds(t) ==
    /\ req[t].pc = "move"
    /\ \E f \in Source(t) :
          /\ Put(cached_file_path(req[t].url, req[t].variant), Whole(FileSize(req[t].variant)))
          /\ IF req[t].variant = "audio"
             THEN /\ req' = [req EXCEPT ![t].pc = "evict", ![t].downloaded_file = NoFile]
                  /\ ev' = [ev EXCEPT ![t] = EnterCleanup]
                  /\ LeaveBut(t, {f})
             ELSE /\ req' = [req EXCEPT ![t].pc = "cleanup"]
                  /\ staging' = staging \ {f}
                  /\ UNCHANGED << ev, stale >>
    /\ UNCHANGED << bg, overlap >>
    /\ UNCHANGED downvars

\* Lines 258 and 306: shutil.move raises (the source is not there, or the
\* rename is refused); nothing was moved.
MoveFails(t) ==
    /\ req[t].pc = "move"
    /\ req' = [req EXCEPT ![t].pc = IF req[t].variant = "audio" THEN "retry" ELSE "copy"]
    /\ UNCHANGED << cache, staging, stale, ev, bg, overlap >>
    /\ UNCHANGED downvars

\* Lines 260-264 of download_audio: glob the staging files of this
\* unique_id; none: raise; else move candidates[0], and that move succeeds.
RetryMoves(t) ==
    /\ req[t].pc = "retry"
    /\ \E f \in Candidates(unique_id(t)) :
          /\ Put(cached_file_path(req[t].url, req[t].variant), Whole(FileSize(req[t].variant)))
          /\ LeaveBut(t, {f})
    /\ req' = [req EXCEPT ![t].pc = "evict", ![t].downloaded_file = NoFile]
    /\ ev' = [ev EXCEPT ![t] = EnterCleanup]
    /\ UNCHANGED << bg, overlap >>
    /\ UNCHANGED downvars

\* Lines 262 and 264: no candidate, or the second shutil.move raises too.
RetryFails(t) ==
    /\ req[t].pc = "retry"
    /\ Raise(t, IF Candidates(unique_id(t)) = {} THEN "no file produced" ELSE "OSError")
    /\ UNCHANGED << cache, ev, bg, overlap >>
    /\ UNCHANGED downvars

\* Line 308 of download_video: shutil.copy2 opens the canonical path for
\* writing, which creates it empty or truncates the file that is there.
CopyOpens(t) ==
    /\ req[t].pc = "copy"
    /\ \E f \in Source(t) :
          Put(cached_file_path(req[t].url, req[t].variant), Opened(FileSize(req[t].variant)))
    /\ req' = [req EXCEPT ![t].pc = "copying"]
    /\ UNCHANGED << staging, stale, ev, bg, overlap >>
    /\ UNCHANGED downvars

\* Line 308: copy2 raises before it has created the destination (no
\* source file, or the open is refused).
CopyOpenFails(t) ==
    /\ req[t].pc = "copy"
    /\ Raise(t, "OSError")
    /\ UNCHANGED << cache, ev, bg, overlap >>
    /\ UNCHANGED downvars

\* Line 308: copy2 has written every byte.  When the directory entry was
\* removed meanwhile the bytes went to an unlinked file.
CopyWrites(t) ==
    LET path == cached_file_path(req[t].url, req[t].variant) IN
    /\ req[t].pc = "copying"
    /\ IF FileAt(path).exists
       THEN Put(path, Whole(FileAt(path).len))
       ELSE UNCHANGED cache
    /\ req' = [req EXCEPT ![t].pc = "cleanup"]
    /\ UNCHANGED << staging, stale, ev, bg, overlap >>
    /\ UNCHANGED downvars

\* Line 308: copy2 raises while writing (disk full, I/O error); nothing in
\* download_video removes what it wrote.
CopyWriteFails(t) ==
    /\ req[t].pc = "copying"
    /\ Raise(t, "OSError")
    /\ UNCHANGED << cache, ev, bg, overlap >>
    /\ UNCHANGED downvars

\* Lines 309-319 of download_video: os.remove of the source and of every
\* remaining candidate, each failure swallowed: the files in kept stay.
CleanupTemp(t, kept) ==
    /\ req[t].pc = "cleanup"
    /\ kept \subseteq Candidates(unique_id(t))
    /\ LeaveBut(t, Candidates(unique_id(t)) \ kept)
    /\ req' = [req EXCEPT ![t].pc = "evict", ![t].downloaded_file = NoFile]
    /\ ev' = [ev EXCEPT ![t] = EnterCleanup]
    /\ UNCHANGED << cache, bg, overlap >>
    /\ UNCHANGED downvars

\* Lines 370 and 391: the handler serves the path it got with send_file,
\* which opens the file; when no file is there the exception is caught at
\* lines 372 and 393 and the client gets the 500 response.
SendFile(t) ==
    /\ req[t].pc \in {"hit", "returned"}
    /\ IF FileAt(req[t].result).exists
       THEN /\ req' = [req EXCEPT ![t] = IdleReq]
            /\ overlap' = { p \in overlap : p[1] # t }
       ELSE /\ req' = [req EXCEPT ![t].pc = "failed",
                                  ![t].result = Failure("FileNotFoundError")]
            /\ UNCHANGED overlap
    /\ UNCHANGED << cache, staging, stale, ev, bg >>
    /\ UNCHANGED downvars

\* ------------------------------------------------------------ get_cdn_link
cachevars == << cache, staging, stale, req, ev, bg, overlap >>

\* Lines 159-160.
is_kick_url(url) == \E i \in 1 .. Len(url) : url[i] = "k"

\* Lines 401-437: get_cdn_link(url) up to the extractor call.  A Kick
\* locator goes to line 413; for the others line 429 globs the audio cache
\* for the "cached" flag.  Nothing is looked up that an earlier call of
\* get_cdn_link left: the next step is extract_info in both branches.
DownStart(t, url) ==
    /\ Free(t)
    /\ down' = [down EXCEPT ![t] =
                  [pc |-> "extract", url |-> url,
                   cached |-> IF is_kick_url(url) THEN FALSE
                              ELSE LookupHit(cached_file_path(url, "audio")),
                   response |-> "none"]]
    /\ UNCHANGED << now, resolved >>
    /\ UNCHANGED cachevars

\* Lines 414 and 440: ydl.extract_info(video_url, download=False) raises;
\* line 455 answers 500.
DownExtractFails(t) ==
    /\ down[t].pc = "extract"
    /\ down' = [down EXCEPT ![t].pc = "answered", ![t].response = "500"]
    /\ UNCHANGED << now, resolved >>
    /\ UNCHANGED cachevars

\* Lines 414-425 and 440-452: extract_info returns; with a stream link in
\* it (found) the answer is the link, else 404.  The link goes to the
\* client only.
DownExtractReturns(t, found) ==
    /\ down[t].pc = "extract"
    /\ down' = [down EXCEPT ![t].pc = "answered",
                            ![t].response =
                                IF ~found THEN "404"
                                ELSE IF is_kick_url(down[t].url) THEN "kick"
                                ELSE "youtube"]
    /\ resolved' = IF found THEN [resolved EXCEPT ![down[t].url] = now] ELSE resolved
    /\ UNCHANGED now
    /\ UNCHANGED cachevars

\* Time passes.
Tick(d) ==
    /\ now + d <= MaxTime
    /\ now' = now + d
    /\ UNCHANGED << down, resolved >>
    /\ UNCHANGED cachevars

\* ------------------------------------------- check_cache_size_and_cleanup
\* The pass of executor e ends normally: the background loop sleeps again
\* (line 198), a request returns cached_file_path (lines 267 and 322).
PassReturns(e) ==
    /\ ev' = [ev EXCEPT ![e] = IdleEv]
    /\ IF e = BG
       THEN bg' = "sleep" /\ UNCHANGED << req, staging, stale >>
       ELSE Return(e) /\ UNCHANGED bg

\* An exception leaves check_cache_size_and_cleanup: nothing catches it in
\* periodic_cache_cleanup (lines 195-198) nor in download_audio / _video.
PassRaises(e) ==
    /\ ev' = [ev EXCEPT ![e] = IdleEv]
    /\ IF e = BG
       THEN bg' = "dead" /\ UNCHANGED << req, staging, stale >>
       ELSE Raise(e, "OSError") /\ UNCHANGED bg

\* A pass that also empties TEMP_DOWNLOAD_DIR.
PassGoes_sweeps(e, next) ==
    /\ ev' = [ev EXCEPT ![e] = next]
    /\ staging' = {}
    /\ stale' = 0
    /\ UNCHANGED << req, bg >>

\* Lines 185-193: the pass goes on; it reads and removes in CACHE_DIR and
\* CACHE_VIDEO_DIR only.
PassGoes(e, next) ==
    /\ ev' = [ev EXCEPT ![e] = next]
    /\ UNCHANGED << req, bg, staging, stale >>

\* The comparison taken with >=.
OverLimit_atCeiling(total_size) == total_size >= MAX_CACHE_SIZE

\* Line 186: the comparison, once both directories are measured.
OverLimit(total_size) == total_size > MAX_CACHE_SIZE

\* Lines 185-186: get_directory_size(directory) returned total_size minus
\* what was measured before; go to the second directory, or compare.
Measured(e, total_size) ==
    IF ev[e].dir = "CACHE_DIR"
    THEN PassGoes(e, [pc |-> "walk", dir |-> "CACHE_VIDEO_DIR",
                      total |-> total_size, names |-> {}])
    ELSE IF OverLimit(total_size)
    THEN PassGoes(e, [pc |-> "listdir", dir |-> "CACHE_DIR",
                      total |-> total_size, names |-> {}])
    ELSE PassReturns(e)

\* Lines 177-180 of get_directory_size: os.walk lists the directory and
\* os.path.isfile keeps the regular files.  The files of one directory are
\* all tested here and all measured in GetSize: a file can go in between.
Walk(e) ==
    /\ ev[e].pc = "walk"
    /\ IF Listing(ev[e].dir) = {}
       THEN Measured(e, ev[e].total)
       ELSE PassGoes(e, [ev[e] EXCEPT !.pc = "getsize", !.names = Listing(ev[e].dir)])
    /\ UNCHANGED << cache, overlap >>
    /\ UNCHANGED downvars

\* Line 181: os.path.getsize of the files kept; it raises when one of them
\* is no longer there.  Then line 185 goes to the second directory, and
\* line 186 decides.
GetSize(e) ==
    LET d == ev[e].dir
        total_size == ev[e].total + SumBytes(cache[d], ev[e].names)
    IN
    /\ ev[e].pc = "getsize"
    /\ IF \E n \in ev[e].names : ~cache[d][n].exists
       THEN PassRaises(e)
       ELSE Measured(e, total_size)
    /\ UNCHANGED << cache, overlap >>
    /\ UNCHANGED downvars

\* Lines 188-193: after the last file of a directory, the next directory
\* or the end of the pass.
AfterFile(e, left) ==
    IF left # {}
    THEN PassGoes(e, [ev[e] EXCEPT !.names = left])
    ELSE IF ev[e].dir = "CACHE_DIR"
    THEN PassGoes(e, [ev[e] EXCEPT !.pc = "listdir", !.dir = "CACHE_VIDEO_DIR",
                                   !.names = {}])
    ELSE PassReturns(e)

\* Line 189: os.listdir(cache_dir).
ListDir(e) ==
    /\ ev[e].pc = "listdir"
    /\ IF Listing(ev[e].dir) = {}
       THEN AfterFile(e, {})
       ELSE PassGoes(e, [ev[e] EXCEPT !.pc = "remove", !.names = Listing(ev[e].dir)])
    /\ UNCHANGED << cache, overlap >>
    /\ UNCHANGED downvars

\* Lines 190-193: os.remove of the next listed file.  The file is removed,
\* or the call raises and the exception is swallowed: the file is gone
\* already (another pass removed it), or the removal is refused and the
\* file stays.
Remove(e, refused) ==
    LET d == ev[e].dir
        n == CHOOSE x \in ev[e].names : \A y \in ev[e].names : x <= y
    IN
    /\ ev[e].pc = "remove"
    /\ refused => cache[d][n].exists
    /\ IF cache[d][n].exists /\ ~refused
       THEN Put(<< d, n >>, Absent)
       ELSE UNCHANGED cache
    /\ AfterFile(e, ev[e].names \ {n})
    /\ UNCHANGED overlap
    /\ UNCHANGED downvars

\* ------------------------------------------------- periodic_cache_cleanup
\* Lines 196-197: the loop wakes up and calls check_cache_size_and_cleanup.
StartPass ==
    /\ bg = "sleep"
    /\ bg' = "pass"
    /\ ev' = [ev EXCEPT ![BG] = EnterCleanup]
    /\ UNCHANGED << cache, staging, stale, req, overlap >>
    /\ UNCHANGED downvars

\* --------------------------------------------------------------------- Next
Next ==
    \/ \E t \in Threads, url \in Locators, variant \in Variants : Lookup(t, url, variant)
    \/ \E t \in Threads : ExtractFails(t)
    \/ \E t \in Threads, exts \in SUBSET {"webm", "mp4", OtherExt} : ExtractReturns(t, exts)
    \/ \E t \in Threads : MoveSucceeds(t)
    \/ \E t \in Threads : MoveFails(t)
    \/ \E t \in Threads : RetryMoves(t)
    \/ \E t \in Threads : RetryFails(t)
    \/ \E t \in Threads : CopyOpens(t)
    \/ \E t \in Threads : CopyOpenFails(t)
    \/ \E t \in Threads : CopyWrites(t)
    \/ \E t \in Threads : CopyWriteFails(t)
    \/ \E t \in Threads, kept \in SUBSET StagingFiles : CleanupTemp(t, kept)
    \/ \E t \in Threads : SendFile(t)
    \/ StartPass
    \/ \E e \in Executors : Walk(e)
    \/ \E e \in Executors : GetSize(e)
    \/ \E e \in Executors : ListDir(e)
    \/ \E e \in Executors, refused \in BOOLEAN : Remove(e, refused)

Spec == Init /\ [][Next]_vars

\* ------------------------------------------- one client, two locators
\* One request thread and the background loop; the locators are u and
\* u + "_video", whose audio key is the video key of u.  Two audio files
\* fill the cache exactly (500 MB), two files with a video exceed it.
StoreThreads == { 1 }

StoreLocators == { <<"u">>, <<"u", "_video">> }

StoreNamesOf(dir) ==
    { cache_key(l, v) : l \in StoreLocators, v \in { w \in Variants : CacheDirOf(w) = dir } }

StoreInit ==
    /\ cache = [d \in CacheDirs |-> [n \in StoreNamesOf(d) |-> Absent]]
    /\ staging = {}
    /\ stale = 0
    /\ req = [t \in Threads |-> IdleReq]
    /\ ev = [e \in Executors |-> IdleEv]
    /\ bg = "sleep"
    /\ overlap = {}
    /\ now = 0
    /\ down = [t \in Threads |-> IdleDown]
    /\ resolved = [l \in DownLocators |-> Never]

StoreNext ==
    \/ \E t \in StoreThreads, url \in StoreLocators, variant \in Variants :
          Lookup(t, url, variant)
    \/ \E t \in StoreThreads : ExtractFails(t)
    \/ \E t \in StoreThreads, exts \in SUBSET {"webm", "mp4", OtherExt} :
          ExtractReturns(t, exts)
    \/ \E t \in StoreThreads : MoveSucceeds(t)
    \/ \E t \in StoreThreads : MoveFails(t)
    \/ \E t \in StoreThreads : RetryMoves(t)
    \/ \E t \in StoreThreads : RetryFails(t)
    \/ \E t \in StoreThreads : CopyOpens(t)
    \/ \E t \in StoreThreads : CopyOpenFails(t)
    \/ \E t \in StoreThreads : CopyWrites(t)
    \/ \E t \in StoreThreads : CopyWriteFails(t)
    \/ \E t \in StoreThreads, kept \in SUBSET StagingFiles : CleanupTemp(t, kept)
    \/ \E t \in StoreThreads : SendFile(t)
    \/ StartPass
    \/ \E e \in StoreThreads \cup {BG} : Walk(e)
    \/ \E e \in StoreThreads \cup {BG} : GetSize(e)
    \/ \E e \in StoreThreads \cup {BG} : ListDir(e)
    \/ \E e \in StoreThreads \cup {BG}, refused \in BOOLEAN : Remove(e, refused)

StoreSpec == StoreInit /\ [][StoreNext]_vars

\* ---------------------------------------------------- /down on its own
\* The threads serve GET /down only, at times 3599 s or 3601 s apart; the
\* audio file of the YouTube locator is cached or not.
TickSteps == { 3599, 3601 }

DownInit ==
    /\ \E file \in { Absent, Whole(FileSize("audio")) } :
          cache = [d \in CacheDirs |-> [n \in NamesOf(d) |->
                      IF d = "CACHE_DIR" THEN file ELSE Absent]]
    /\ staging = {}
    /\ stale = 0
    /\ req = [t \in Threads |-> IdleReq]
    /\ ev = [e \in Executors |-> IdleEv]
    /\ bg = "sleep"
    /\ overlap = {}
    /\ now = 0
    /\ down = [t \in Threads |-> IdleDown]
    /\ resolved = [l \in DownLocators |-> Never]

DownNext ==
    \/ \E t \in Threads, url \in DownLocators : DownStart(t, url)
    \/ \E t \in Threads : DownExtractFails(t)
    \/ \E t \in Threads, found \in BOOLEAN : DownExtractReturns(t, found)
    \/ \E d \in TickSteps : Tick(d)

DownSpec == DownInit /\ [][DownNext]_vars

\* ------------------------------------------------------------------ claims
\* The time to live of a metadata entry in the specification: 3600 s.
MetadataTTL == 60 * 60

\* get_directory_size (lines 175-182) of a directory as it is now.
get_directory_size(directory) == SumBytes(cache[directory], Listing(directory))

CacheSize == get_directory_size("CACHE_DIR") + get_directory_size("CACHE_VIDEO_DIR")

PathOf(t) == cached_file_path(req[t].url, req[t].variant)

Done(t) == req[t].pc \in {"hit", "returned", "failed"}

Succeeded(t) == req[t].pc \in {"hit", "returned"}

\* Requests t and u were in flight together for the same (locator, variant)
\* and neither thread has taken another request since.
Raced(t, u) == t # u /\ << t, u >> \in overlap /\ << u, t >> \in overlap

\* The step in which check_cache_size_and_cleanup, run by e, returns.
PassCompletes(e) ==
    /\ ev[e].pc # "none"
    /\ ev'[e].pc = "none"
    /\ IF e = BG THEN bg' = "sleep" ELSE req'[e].pc = "returned"

\* C1: at most one extractor invocation is in flight per cache key: no two
\* requests for the same (locator, variant) are inside extract_info together.
C1_OneExtractorPerKey ==
    \A t, u \in Threads :
        (/\ t # u
         /\ req[t].pc = "extract"
         /\ req[u].pc = "extract"
         /\ req[t].url = req[u].url)
        => req[t].variant # req[u].variant

\* C2: of two requests for the same (locator, variant) that were in flight
\* together, it never happens that one gets a path and the other a failure.
C2_SameOutcome ==
    \A t, u \in Threads :
        (/\ << t, u >> \in overlap
         /\ << u, t >> \in overlap
         /\ Done(t)
         /\ Done(u))
        => (Succeeded(t) <=> Succeeded(u))

\* C3: every file visible at a canonical cache path is completely written.
C3_NoPartialVisible ==
    \A d \in CacheDirs :
        \A n \in NamesOf(d) :
            cache[d][n].exists => cache[d][n].bytes = cache[d][n].len

\* C4: when a pass of check_cache_size_and_cleanup returns, the two cache
\* directories together hold at most MAX_CACHE_SIZE bytes.
C4_PassEndsUnderCeiling ==
    [][\A e \in Executors : PassCompletes(e) => CacheSize' <= MAX_CACHE_SIZE]_vars

\* C5: when download_audio / download_video returns a path after
\* publishing, a file of size > 0 is at that path; stated for a request
\* that runs while no other request has been made, so that the only pass
\* of a request thread is the one the download itself runs.
C5_ReturnedPathHasFile ==
    [][\A t \in Threads :
          (/\ req[t].pc = "evict"
           /\ req'[t].pc = "returned"
           /\ \A u \in Threads \ {t} : req[u].pc = "idle")
          => (/\ cache'[req'[t].result[1]][req'[t].result[2]].exists
              /\ cache'[req'[t].result[1]][req'[t].result[2]].bytes > 0)]_vars

\* C6: a call of download_audio / download_video that finds the artifact at
\* its canonical path returns that path (the one the publishing call
\* returned), calls no extractor and leaves the cache directories and the
\* staging directory unchanged.
C6_HitReturnsPathUnchanged ==
    [][\A t \in Threads, url \in Locators, variant \in Variants :
          (/\ FileAt(cached_file_path(url, variant)).exists
           /\ Lookup(t, url, variant))
          => (/\ req'[t].pc = "hit"
              /\ req'[t].result = cached_file_path(url, variant)
              /\ cache' = cache
              /\ staging' = staging
              /\ stale' = stale)]_vars

\* C6's case: a request was answered from the cache while the file
\* published by an earlier download is at the path.
C6_Witness ==
    \E t \in Threads :
        /\ req[t].pc = "hit"
        /\ req[t].result = PathOf(t)
        /\ FileAt(PathOf(t)) = Whole(FileSize(req[t].variant))

\* C7: a pass that measured more than MAX_CACHE_SIZE leaves both cache
\* directories empty when it returns.
C7_PassOverLimitEmpties ==
    [][\A e \in Executors :
          (PassCompletes(e) /\ ev[e].pc \in {"listdir", "remove"})
          => (CacheSize' = 0 /\ \A d \in CacheDirs : \A n \in NamesOf(d) : ~cache'[d][n].exists)]_vars

C9_LoopNeverStops == bg # "dead"

\* C14: a stream link get_cdn_link resolved for a locator at time T is
\* answered from a metadata cache, without calling the extractor, by every
\* call for that locator that starts less than 3600 s after T (at T + 3599).
C14_DownAnswersFromMetadataCache ==
    [][\A t \in Threads, url \in DownLocators :
          (/\ DownStart(t, url)
           /\ resolved[url] # Never
           /\ now - resolved[url] \in 1 .. MetadataTTL - 1)
          => down'[t].pc = "answered"]_vars

\* C10: when the publish of a download fails after the first move failed,
\* the file at the canonical path, if there is one, is completely written.
C10_FailedPublishLeavesNoPartial ==
    [][\A t \in Threads :
          (req[t].pc \in {"retry", "copy", "copying"} /\ req'[t].pc = "failed")
          => (FileAt(PathOf(t)).exists' =>
                 FileAt(PathOf(t)).bytes' = FileAt(PathOf(t)).len')]_vars

\* C11: when two producers of the same key both publish, the one that
\* publishes second does not leave the staging file it published from in
\* the staging directory, and when both have returned a complete file is at
\* the canonical path.
C11_PublishRaceLeavesOneArtifact ==
    [][\A t, u \in Threads :
          Raced(t, u)
          => /\ (/\ req[u].pc \in {"evict", "returned"}
                 /\ req[t].pc = "cleanup"
                 /\ req'[t].pc = "evict"
                 /\ Candidates(unique_id(t)) # {}
                 /\ Candidates(unique_id(t)) = Source(t)
                 /\ stale < MaxStale)
                => stale' = stale
             /\ (/\ req[t].pc = "evict"
                 /\ req'[t].pc = "returned"
                 /\ req'[u].pc = "returned")
                => FileAt(PathOf(t))' = Whole(FileSize(req[t].variant))]_vars

\* C12: a publish never lands on a canonical path where a published file
\* is: neither the rename of shutil.move nor the open of copy2 replaces or
\* rewrites an existing artifact.
C12_PublishedFileNeverReplaced ==
    [][\A t \in Threads :
          (MoveSucceeds(t) \/ RetryMoves(t) \/ CopyOpens(t))
          => ~FileAt(PathOf(t)).exists]_vars

\* C13: the key of a request depends on its locator and variant only: the
\* path a request got, from the lookup or after publishing, is the
\* directory of its variant with the digest of its locator (plus "_video"
\* for video), and for the locator of every request the audio key differs
\* from the video key.
C13_KeysDeterministicAndDistinct ==
    \A t \in Threads :
        /\ Succeeded(t)
           => req[t].result = << CacheDirOf(req[t].variant),
                                 IF req[t].variant = "audio"
                                 THEN get_cache_key(req[t].url)
                                 ELSE video_cache_key(req[t].url) >>
        /\ req[t].pc # "idle"
           => get_cache_key(req[t].url) # video_cache_key(req[t].url)

\* C13's case: for one locator the audio file and the video file are both
\* published, at two paths, and the request that published the second
\* has returned its path.
C13_Witness ==
    \E t \in Threads :
        /\ req[t].pc = "returned"
        /\ req[t].result = cached_file_path(req[t].url, "video")
        /\ FileAt(cached_file_path(req[t].url, "audio")).exists
        /\ FileAt(cached_file_path(req[t].url, "video")).exists
        /\ req[t].url = << "u", "_video" >>

\* The step is one of check_cache_size_and_cleanup run by executor e.
PassStep(e) == ev[e].pc # "none" /\ ev'[e] # ev[e]

\* C15: a pass that measured at most MAX_CACHE_SIZE (exactly MAX_CACHE_SIZE
\* included) deletes nothing: while it measures it changes no file of the
\* cache directories, it goes on to os.listdir and os.remove only with a
\* total above MAX_CACHE_SIZE, and otherwise returns from the measuring.
C15_PassWithinLimitDeletesNothing ==
    [][\A e \in Executors :
          /\ (PassStep(e) /\ ev[e].pc \in {"walk", "getsize"}) => cache' = cache
          /\ (PassStep(e) /\ ev'[e].pc \in {"listdir", "remove"})
                => ev'[e].total > MAX_CACHE_SIZE
          /\ (/\ PassStep(e)
              /\ ev[e].pc = "walk"
              /\ ev[e].dir = "CACHE_VIDEO_DIR"
              /\ Listing("CACHE_VIDEO_DIR") = {}
              /\ ev[e].total <= MAX_CACHE_SIZE)
                => (ev'[e].pc = "none" /\ cache' = cache)]_vars

\* C15's case: a request published the second audio file, the pass it
\* ran after publishing has returned, and the cache directories hold
\* exactly MAX_CACHE_SIZE, the two audio files.
C15_Witness ==
    \E t \in Threads :
        /\ req[t].pc = "returned"
        /\ req[t].variant = "audio"
        /\ ev[t].pc = "none"
        /\ bg = "sleep"
        /\ get_directory_size("CACHE_DIR") = MAX_CACHE_SIZE
        /\ get_directory_size("CACHE_VIDEO_DIR") = 0
        /\ \A l \in StoreLocators : FileAt(cached_file_path(l, "audio")) = Whole(FileSize("audio"))

\* C18: distinct (locator, variant) pairs have distinct canonical paths,
\* also the audio of u + "_video" and the video of u, which have one key:
\* a lookup answers from the file at its own path only, and a publish
\* changes the file at its own path only.
C18_PathsNeverShared ==
    /\ \A l1, l2 \in StoreLocators, v1, v2 \in Variants :
          << l1, v1 >> # << l2, v2 >>
          => cached_file_path(l1, v1) # cached_file_path(l2, v2)
    /\ [][\A t \in Threads :
             /\ (req[t].pc \in {"idle", "failed"} /\ req'[t].pc \in {"hit", "extract"})
                => IF FileAt(PathOf(t)').exists
                   THEN req'[t].pc = "hit" /\ req'[t].result = PathOf(t)'
                   ELSE req'[t].pc = "extract"
             /\ (req'[t] # req[t] /\ req[t].pc \in {"move", "retry", "copy", "copying"})
                => \A d \in CacheDirs : \A n \in DOMAIN cache[d] :
                       << d, n >> # PathOf(t) => cache'[d][n] = cache[d][n]]_vars

\* C18's case: the video of u is published, its key is the audio key of
\* u + "_video", and a request for the audio of u + "_video" missed the
\* lookup, downloaded and published next to it.
C18_Witness ==
    \E t \in Threads :
        /\ req[t].url = << "u", "_video" >>
        /\ req[t].variant = "audio"
        /\ req[t].pc = "evict"
        /\ cache_key(req[t].url, "audio") = cache_key(<< "u" >>, "video")
        /\ FileAt(cached_file_path(<< "u" >>, "video")) = Whole(FileSize("video"))
        /\ FileAt(PathOf(t)) = Whole(FileSize("audio"))

\* C16: the lookup at the start of download_audio / download_video returns
\* a path only for a file that is present and not empty: with a zero-byte
\* file at the canonical path it is a miss, and the download starts.
C16_EmptyFileIsMiss ==
    [][\A t \in Threads, url \in Locators, variant \in Variants :
          (/\ FileAt(cached_file_path(url, variant)).exists
           /\ FileAt(cached_file_path(url, variant)).bytes = 0
           /\ Lookup(t, url, variant))
          => req'[t].pc = "extract"]_vars

\* C17: between the return of download_audio / download_video to a handler
\* and the handler's send_file, no pass of check_cache_size_and_cleanup
\* run by another thread removes the file at the returned path.
C17_ReturnedFileStaysUntilServed ==
    [][\A t \in Threads :
          (/\ req[t].pc \in {"hit", "returned"}
           /\ FileAt(req[t].result).exists
           /\ \E e \in Executors \ {t} : PassStep(e))
          => FileAt(req[t].result)'.exists]_vars

\* C19: a pass of check_cache_size_and_cleanup leaves the staging
\* directory as it is, and what a measuring step adds to the total is at
\* most the size of the cache directory it measures: staging files are
\* neither removed nor counted.
C19_PassLeavesStagingAlone ==
    [][\A e \in Executors :
          PassStep(e)
          => /\ staging' = staging
             /\ stale' = stale
             /\ (ev[e].pc \in {"walk", "getsize"} /\ ev'[e].pc # "none")
                => /\ ev'[e].total >= ev[e].total
                   /\ ev'[e].total - ev[e].total <= get_directory_size(ev[e].dir)]_vars

\* C19's case: a pass that measured more than MAX_CACHE_SIZE is removing
\* files while a download has its file in the staging directory.
C19_Witness ==
    \E e \in Executors, t \in Threads :
        /\ e # t
        /\ ev[e].pc = "remove"
        /\ ev[e].total > MAX_CACHE_SIZE
        /\ req[t].pc = "move"
        /\ Source(t) # {}

====
